---- MODULE Spec2Model ----
(***************************************************************************)
(* HEMusicExtractor (src/HE_music_extractor.py): the parser of the         *)
(* SONG/SGHD music container.  The file is a sequence of bytes, the        *)
(* extractor reads it through one shared cursor, and the two methods       *)
(* read_music_headers and get_music_data are modelled step by step.        *)
(***************************************************************************)
EXTENDS Integers, Sequences, FiniteSets, TLC

(***************************************************************************)
(* Bounds of the checked inputs.                                           *)
(***************************************************************************)
MaxTracks == 2      \* descriptor records / tracks in a container
MaxPayload == 2     \* payload bytes of a track
MaxCode == 2        \* code bytes inside an SBNG block
MaxCalls == 2       \* method calls made on one extractor

(***************************************************************************)
(* Program constants.                                                      *)
(***************************************************************************)
V2HeaderLen == 40       \* header_len != 40
HeVersionDefault == 80  \* he_version = 80
HeVersionOld == 70      \* he_version = 70
MusicStartV2 == 56
MusicStartV1 == 20
SongInfoLen == 12       \* file.read(12)
SongInfoSkipV2 == 9
SongInfoSkipV1 == 13
RateOffset == 22        \* song.offset + 22
ChunkOffset == 32       \* song.offset + 32
SbngCodeOffset == 40    \* song.sbng_code_offset = 40
ChunkHeaderLen == 8     \* unpack('>I', ...)[0] - 8
NoSbng == 0 - 1         \* sbng_code_offset: int = -1

(***************************************************************************)
(* Bytes, tags and struct.unpack.                                          *)
(***************************************************************************)
SONG == <<83, 79, 78, 71>>
SGHD == <<83, 71, 72, 68>>
DIGI == <<68, 73, 71, 73>>
SBNG == <<83, 66, 78, 71>>
SDAT == <<83, 68, 65, 84>>

None == << >>
Some(x) == <<x>>

Min(a, b) == IF a <= b THEN a ELSE b

\* unpack('<I', b)[0] for a 4-byte buffer b
UnpackLE(b) == b[1] + 256 * b[2] + 65536 * b[3] + 16777216 * b[4]

\* unpack('>I', b)[0] for a 4-byte buffer b
UnpackBE(b) == b[4] + 256 * b[3] + 65536 * b[2] + 16777216 * b[1]

\* file.read(n) with the cursor at p: the bytes returned.  A read at or past
\* the end returns b''; a negative n reads to the end of the file.
ReadAt(f, p, n) ==
    IF p >= Len(f) THEN << >>
    ELSE IF n < 0 THEN SubSeq(f, p + 1, Len(f))
    ELSE SubSeq(f, p + 1, Min(p + n, Len(f)))

\* SongInfo with offset and size taken in the wrong order
SongInfoSwapped(id_, offset, size) ==
    [id |-> id_, offset |-> size, size |-> offset,
     rate |-> None, payload |-> None, sbng_code_offset |-> NoSbng]

\* SongInfo(id_, offset, size): rate, payload and sbng_code_offset default
SongInfo(id_, offset, size) ==
    [id |-> id_, offset |-> offset, size |-> size,
     rate |-> None, payload |-> None, sbng_code_offset |-> NoSbng]

\* music_start = 56 if he_version >= 80 else 20
MusicStart(v) == IF v >= HeVersionDefault THEN MusicStartV2 ELSE MusicStartV1

\* the trailing skip of V2 used for both variants
SongInfoSkipFixed(v) == SongInfoSkipV2

\* file.seek(9 if he_version >= 80 else 13, SEEK_CUR)
SongInfoSkip(v) == IF v >= HeVersionDefault THEN SongInfoSkipV2 ELSE SongInfoSkipV1

(***************************************************************************)
(* Input containers.  A container is laid out as the format table gives    *)
(* it: SONG, total size, SGHD, header-block length (big-endian), track     *)
(* count (little-endian), the descriptor table at byte 56 or 20, and the   *)
(* tracks' chunk sequences after the table.                                *)
(***************************************************************************)
PackLE(v) == <<v % 256, (v \div 256) % 256, (v \div 65536) % 256, (v \div 16777216) % 256>>
PackBE(v) == <<(v \div 16777216) % 256, (v \div 65536) % 256, (v \div 256) % 256, v % 256>>
Zeros(n) == [i \in 1..n |-> 0]
Cut(f, n) == SubSeq(f, 1, Min(n, Len(f)))

BadSONG == <<83, 79, 78, 72>>
BadSGHD == <<83, 71, 72, 69>>
TALK == <<84, 65, 76, 75>>
OtherChunk == <<88, 88, 88, 88>>

CommonShapes == {"plain", "talk", "nosdat"}
SpecialShapes == {"empty", "sbng", "sbng_nosdat", "small7", "small5"}
Shapes == CommonShapes \cup SpecialShapes

FixtureRate(k) == 11025 + k
FixtureId(k) == 300 + k
FixturePayload(k, shape) ==
    IF shape = "empty" THEN << >> ELSE [i \in 1..MaxPayload |-> 10 * k + i]
FixtureCode == [i \in 1..MaxCode |-> 100 + i]

\* the chunk sequence of track k
TrackBytes(k, shape) ==
    LET payload == FixturePayload(k, shape)
        declared == CASE shape = "small7" -> 7
                      [] shape = "small5" -> 5
                      [] OTHER -> 8 + Len(payload)
        sbng == IF shape \in {"sbng", "sbng_nosdat"}
                THEN SBNG \o PackBE(8 + MaxCode) \o FixtureCode
                ELSE << >>
    IN  (IF shape = "talk" THEN TALK ELSE DIGI) \o Zeros(18)
        \o PackLE(FixtureRate(k)) \o Zeros(6) \o sbng
        \o (IF shape \in {"nosdat", "sbng_nosdat"} THEN OtherChunk ELSE SDAT)
        \o PackBE(declared) \o payload

TableStart(hl) == IF hl = 40 THEN 56 ELSE 20
TableStride(hl) == IF hl = 40 THEN 21 ELSE 25

RECURSIVE TrackOffset(_, _, _)
TrackOffset(hl, shapes, k) ==
    IF k = 1 THEN TableStart(hl) + TableStride(hl) * Len(shapes)
    ELSE TrackOffset(hl, shapes, k - 1) + Len(TrackBytes(k - 1, shapes[k - 1]))

RECURSIVE TableBytes(_, _, _)
TableBytes(hl, shapes, k) ==
    IF k > Len(shapes) THEN << >>
    ELSE PackLE(FixtureId(k)) \o PackLE(TrackOffset(hl, shapes, k))
         \o PackLE(Len(TrackBytes(k, shapes[k]))) \o Zeros(TableStride(hl) - 12)
         \o TableBytes(hl, shapes, k + 1)

RECURSIVE DataBytes(_, _)
DataBytes(shapes, k) ==
    IF k > Len(shapes) THEN << >>
    ELSE TrackBytes(k, shapes[k]) \o DataBytes(shapes, k + 1)

Container(magic, sghd, hl, shapes) ==
    LET body == TableBytes(hl, shapes, 1) \o DataBytes(shapes, 1)
    IN  magic \o PackBE(TableStart(hl) + Len(body)) \o sghd \o PackBE(hl)
        \o PackLE(Len(shapes)) \o Zeros(TableStart(hl) - 20) \o body

HeaderLens == {40, 20}

\* containers with well-formed tracks, a wrong magic or a cut in the header
\* or in the descriptor table
HeaderFiles ==
    UNION { LET shapes == [k \in 1..n |-> "plain"]
                whole == Container(m[1], m[2], hl, shapes)
                last == TableStart(hl) + TableStride(hl) * (n - 1)
                cuts == {Len(whole), 2, 10, 14, 18}
                        \cup (IF n >= 1 THEN {last + 6, last + 12} ELSE {})
            IN  {Cut(whole, c) : c \in cuts}
          : m \in {<<SONG, SGHD>>, <<BadSONG, SGHD>>, <<SONG, BadSGHD>>},
            hl \in HeaderLens, n \in 0..MaxTracks }

\* containers with a sound header and table, tracks of every shape (at most
\* one of the special shapes per container) and a cut inside the last track
TrackFiles ==
    UNION { LET whole == Container(SONG, SGHD, hl, shapes)
                last == TrackOffset(hl, shapes, Len(shapes))
                cuts == {Len(whole), Len(whole) - 1, last + 38, last + 24}
            IN  {Cut(whole, c) : c \in cuts}
          : hl \in HeaderLens,
            shapes \in UNION { {s \in [1..n -> Shapes] :
                                  Cardinality({k \in 1..n : s[k] \in SpecialShapes}) <= 1}
                               : n \in 1..MaxTracks } }

Files == HeaderFiles \cup TrackFiles

(***************************************************************************)
(* State.                                                                  *)
(***************************************************************************)
VARIABLES
    file,           \* self._file: the bytes of the container
    stream,         \* the kind of BinaryIO given to __init__
    f_global,       \* the module-level name f is bound to the same open file
    pos,            \* the cursor of self._file
    cls_he_version, \* the class attribute HEMusicExtractor.he_version
    op,             \* the method the caller invoked
    pc,             \* the statement the call is at
    he_version,     \* read_music_headers: local he_version
    total_tracks,   \* read_music_headers: local total_tracks
    songs,          \* the list songs being built
    idx,            \* get_music_data: the entry of songs the loop is at
    err,            \* the exception the call raised, or "none"
    ret,            \* the list the call returned, or None
    calls,          \* calls made so far
    first           \* the outcome of the first completed call of each method

vars == <<file, stream, f_global, pos, cls_he_version, op, pc, he_version,
          total_tracks, songs, idx, err, ret, calls, first>>

Methods == {"read_music_headers", "get_music_data"}

Init ==
    /\ file \in Files
    /\ stream \in {"BufferedReader", "BytesIO"}
    /\ f_global \in (IF stream = "BufferedReader" THEN BOOLEAN ELSE {FALSE})
    /\ pos \in {0, 7}
    /\ cls_he_version = HeVersionDefault
    /\ op = "none"
    /\ pc = "idle"
    /\ he_version = HeVersionDefault
    /\ total_tracks = 0
    /\ songs = << >>
    /\ idx = 0
    /\ err = "none"
    /\ ret = None
    /\ calls = 0
    /\ first = [m \in Methods |-> None]

\* the call ends: it raises e (r = None) or returns r (e = "none")
Finish(e, r) ==
    /\ pc' = "done"
    /\ err' = e
    /\ ret' = r
    /\ first' = IF first[op] = None
                THEN [first EXCEPT ![op] = Some([err |-> e, ret |-> r])]
                ELSE first

Continue(next) ==
    /\ pc' = next
    /\ UNCHANGED <<err, ret, first>>

\* a method is entered: he_version = self.he_version, and get_music_data
\* calls read_music_headers first
Enter(m) ==
    /\ pc \in {"idle", "done"}
    /\ calls < MaxCalls
    /\ calls' = calls + 1
    /\ op' = m
    /\ pc' = "song"
    /\ he_version' = cls_he_version
    /\ total_tracks' = 0
    /\ songs' = << >>
    /\ idx' = 0
    /\ err' = "none"
    /\ ret' = None
    /\ UNCHANGED <<file, stream, f_global, pos, cls_he_version, first>>

CallReadMusicHeaders == Enter("read_music_headers")

CallGetMusicData == Enter("get_music_data")

\* the header read from wherever the cursor is
SeekStartKept(p) == p

\* file.seek(0, SEEK_SET)
SeekStart(p) == 0

\* file.seek(0); if file.read(4) != b'SONG': raise RuntimeError
CheckSong ==
    /\ pc = "song"
    /\ LET p == SeekStart(pos)
           magic == ReadAt(file, p, 4)
       IN  /\ pos' = p + Len(magic)
           /\ IF magic # SONG THEN Finish("RuntimeError", None)
                              ELSE Continue("sghd")
    /\ UNCHANGED <<file, stream, f_global, cls_he_version, op, he_version,
                   total_tracks, songs, idx, calls>>

\* the sub-header tag read but not checked
CheckSghdUnchecked ==
    /\ pc = "sghd"
    /\ pos' = pos + 4 + Len(ReadAt(file, pos + 4, 4))
    /\ Continue("header_len")
    /\ UNCHANGED <<file, stream, f_global, cls_he_version, op, he_version,
                   total_tracks, songs, idx, calls>>

\* file.seek(4, SEEK_CUR); assert file.read(4) == b'SGHD'
CheckSghd ==
    /\ pc = "sghd"
    /\ LET tag == ReadAt(file, pos + 4, 4)
       IN  /\ pos' = pos + 4 + Len(tag)
           /\ IF tag # SGHD THEN Finish("AssertionError", None)
                            ELSE Continue("header_len")
    /\ UNCHANGED <<file, stream, f_global, cls_he_version, op, he_version,
                   total_tracks, songs, idx, calls>>

\* if header_len != 40: he_version = 70 (the local, not the class attribute)
DetectVersion(header_len, v) ==
    IF header_len # V2HeaderLen THEN HeVersionOld ELSE v

\* header_len = unpack('>I', file.read(4))[0]
ReadHeaderLen ==
    /\ pc = "header_len"
    /\ LET b == ReadAt(file, pos, 4)
       IN  /\ pos' = pos + Len(b)
           /\ IF Len(b) < 4
              THEN Finish("struct.error", None) /\ UNCHANGED he_version
              ELSE /\ he_version' = DetectVersion(UnpackBE(b), he_version)
                   /\ Continue("total_tracks")
    /\ UNCHANGED <<file, stream, f_global, cls_he_version, op, total_tracks,
                   songs, idx, calls>>

\* total_tracks = unpack('<I', file.read(4))[0]; file.seek(music_start)
ReadTotalTracks ==
    /\ pc = "total_tracks"
    /\ LET b == ReadAt(file, pos, 4)
       IN  IF Len(b) < 4
           THEN /\ pos' = pos + Len(b)
                /\ Finish("struct.error", None)
                /\ UNCHANGED total_tracks
           ELSE /\ total_tracks' = UnpackLE(b)
                /\ pos' = MusicStart(he_version)
                /\ Continue("song_info")
    /\ UNCHANGED <<file, stream, f_global, cls_he_version, op, he_version,
                   songs, idx, calls>>

\* one pass of: for _ in range(total_tracks)
ReadSongInfo ==
    /\ pc = "song_info"
    /\ Len(songs) < total_tracks
    /\ LET b == ReadAt(file, pos, SongInfoLen)
       IN  IF Len(b) < SongInfoLen
           THEN /\ pos' = pos + Len(b)
                /\ Finish("struct.error", None)
                /\ UNCHANGED songs
           ELSE /\ songs' = Append(songs, SongInfo(UnpackLE(SubSeq(b, 1, 4)),
                                                   UnpackLE(SubSeq(b, 5, 8)),
                                                   UnpackLE(SubSeq(b, 9, 12))))
                /\ pos' = pos + SongInfoLen + SongInfoSkip(he_version)
                /\ Continue("song_info")
    /\ UNCHANGED <<file, stream, f_global, cls_he_version, op, he_version,
                   total_tracks, idx, calls>>

\* return songs, to the caller of read_music_headers
ReturnSongs ==
    /\ pc = "song_info"
    /\ Len(songs) >= total_tracks
    /\ op = "read_music_headers"
    /\ Finish("none", Some(songs))
    /\ UNCHANGED <<file, stream, f_global, pos, cls_he_version, op, he_version,
                   total_tracks, songs, idx, calls>>

\* songs = self.read_music_headers(), inside get_music_data
BeginSongData ==
    /\ pc = "song_info"
    /\ Len(songs) >= total_tracks
    /\ op = "get_music_data"
    /\ idx' = 1
    /\ Continue("song_data")
    /\ UNCHANGED <<file, stream, f_global, pos, cls_he_version, op, he_version,
                   total_tracks, songs, calls>>

(***************************************************************************)
(* get_music_data: one pass of `for song in songs`.  Each operator gives   *)
(* the entry as the pass leaves it, the exception raised ("none" when the  *)
(* pass ends normally or with continue) and the cursor it leaves.          *)
(***************************************************************************)
Outcome(song, e, p) == [song |-> song, err |-> e, pos |-> p]

\* the declared size taken as the payload size, chunk header included
PayloadSizeRaw(declared) == declared

\* size = unpack('>I', file.read(4))[0] - 8
PayloadSize(declared) == declared - ChunkHeaderLen

\* size ... payload = file.read(size); song.rate = rate; song.payload = payload
\* (p: the cursor after the SDAT tag).  io.BufferedReader refuses a length
\* below -1; io.BytesIO reads to the end for every negative length.
ReadSdat(f, strm, song, rate, p) ==
    LET b == ReadAt(f, p, 4)
    IN  IF Len(b) < 4 THEN Outcome(song, "struct.error", p + Len(b))
        ELSE LET size == PayloadSize(UnpackBE(b))
                 payload == ReadAt(f, p + 4, size)
             IN  IF size < 0 - 1 /\ strm = "BufferedReader"
                 THEN Outcome(song, "ValueError", p + 4)
                 ELSE Outcome([song EXCEPT !.rate = Some(rate),
                                           !.payload = Some(payload)],
                              "none", p + 4 + Len(payload))

\* if chunk_header != b'SDAT': ... continue
CheckSdat(f, strm, song, rate, chunk_header, p) ==
    IF chunk_header # SDAT THEN Outcome(song, "none", p)
    ELSE ReadSdat(f, strm, song, rate, p)

\* the SBNG branch (p: the cursor after the SBNG tag): the length is read from
\* file, the skip and the next tag go through the name f, which is the open
\* file when the module runs as a script and is unbound otherwise
SkipCode(f, glob, strm, song, rate, p) ==
    LET marked == [song EXCEPT !.sbng_code_offset = SbngCodeOffset]
        b == ReadAt(f, p, 4)
    IN  IF Len(b) < 4 THEN Outcome(marked, "struct.error", p + Len(b))
        ELSE IF ~glob THEN Outcome(marked, "NameError", p + 4)
        ELSE LET code_len == UnpackBE(b) - ChunkHeaderLen
                 q == p + 4 + code_len
                 chunk_header == ReadAt(f, q, 4)
             IN  IF q < 0 THEN Outcome(marked, "OSError", p + 4)
                 ELSE CheckSdat(f, strm, marked, rate, chunk_header,
                                q + Len(chunk_header))

\* file.seek(song.offset + 32); chunk_header = file.read(4)
ReadChunk(f, glob, strm, song, rate) ==
    LET chunk_header == ReadAt(f, song.offset + ChunkOffset, 4)
        p == song.offset + ChunkOffset + Len(chunk_header)
    IN  IF chunk_header = SBNG THEN SkipCode(f, glob, strm, song, rate, p)
        ELSE CheckSdat(f, strm, song, rate, chunk_header, p)

\* file.seek(song.offset + 22); rate = unpack('<I', file.read(4))[0]
ReadRate(f, glob, strm, song) ==
    LET b == ReadAt(f, song.offset + RateOffset, 4)
    IN  IF Len(b) < 4
        THEN Outcome(song, "struct.error", song.offset + RateOffset + Len(b))
        ELSE ReadChunk(f, glob, strm, song, UnpackLE(b))

\* file.seek(song.offset); sound_fmt = file.read(4); if sound_fmt != b'DIGI'
ExtractSong(f, glob, strm, song) ==
    LET sound_fmt == ReadAt(f, song.offset, 4)
    IN  IF sound_fmt # DIGI THEN Outcome(song, "none", song.offset + Len(sound_fmt))
        ELSE ReadRate(f, glob, strm, song)

\* one pass of: for song in songs
ReadSongData ==
    /\ pc = "song_data"
    /\ idx <= Len(songs)
    /\ LET r == ExtractSong(file, f_global, stream, songs[idx])
       IN  /\ songs' = [songs EXCEPT ![idx] = r.song]
           /\ pos' = r.pos
           /\ IF r.err # "none"
              THEN Finish(r.err, None) /\ UNCHANGED idx
              ELSE Continue("song_data") /\ idx' = idx + 1
    /\ UNCHANGED <<file, stream, f_global, cls_he_version, op, he_version,
                   total_tracks, calls>>

\* return songs, to the caller of get_music_data
ReturnSongData ==
    /\ pc = "song_data"
    /\ idx > Len(songs)
    /\ Finish("none", Some(songs))
    /\ UNCHANGED <<file, stream, f_global, pos, cls_he_version, op, he_version,
                   total_tracks, songs, idx, calls>>

Next ==
    \/ CallReadMusicHeaders
    \/ CallGetMusicData
    \/ CheckSong
    \/ CheckSghd
    \/ ReadHeaderLen
    \/ ReadTotalTracks
    \/ ReadSongInfo
    \/ ReturnSongs
    \/ BeginSongData
    \/ ReadSongData
    \/ ReturnSongData

Spec == Init /\ [][Next]_vars

(***************************************************************************)
(* The container as the format table describes it, read off the bytes of   *)
(* the file without the cursor.                                            *)
(***************************************************************************)
Field(p, n) == IF p + n <= Len(file) THEN SubSeq(file, p + 1, p + n) ELSE << >>
Has(p, n) == p + n <= Len(file)
LE32(p) == file[p + 1] + 256 * file[p + 2] + 65536 * file[p + 3] + 16777216 * file[p + 4]
BE32(p) == file[p + 4] + 256 * file[p + 3] + 65536 * file[p + 2] + 16777216 * file[p + 1]

HeaderOk == Field(0, 4) = SONG /\ Field(8, 4) = SGHD
IsV2 == BE32(12) = 40
TableAt(k) == IF IsV2 THEN 56 + 21 * k ELSE 20 + 25 * k
DeclaredTracks == LE32(16)
\* the header parses and the table holds DeclaredTracks complete records
TableOk ==
    /\ HeaderOk
    /\ Has(16, 4)
    /\ \A k \in 0..(DeclaredTracks - 1) : Has(TableAt(k), 12)

\* entry k of songs has been through a whole pass of the loop of get_music_data
Passed(k) == op = "get_music_data" /\ pc \in {"song_data", "done"} /\ k < idx
\* the pass over entry k raised
Raised(k) == op = "get_music_data" /\ pc = "done" /\ err # "none" /\ k = idx
Tracks == 1..Len(songs)

\* where the chunk that should be SDAT starts, for the track at offset o
SdatAt(o) ==
    IF Field(o + 32, 4) = SBNG /\ Has(o + 36, 4) THEN o + 32 + BE32(o + 36) ELSE o + 32
\* a DIGI track whose SDAT chunk, of declared size at least 8, lies in the file
SoundSdat(o) ==
    /\ Field(SdatAt(o), 4) = SDAT
    /\ Has(SdatAt(o) + 4, 4)
    /\ BE32(SdatAt(o) + 4) >= 8
    /\ Has(SdatAt(o) + 8, BE32(SdatAt(o) + 4) - 8)
PayloadOf(o) == Field(SdatAt(o) + 8, BE32(SdatAt(o) + 4) - 8)

(***************************************************************************)
(* Claims.                                                                 *)
(***************************************************************************)

\* C1: for a container with SONG at 0, SGHD at 8 and N complete records
\* (N the little-endian count at byte 16), read_music_headers returns exactly
\* N entries in table order, entry k holding the three little-endian values
\* at the start of record k, with rate and payload absent.
C1_HeadersInTableOrder ==
    (op = "read_music_headers" /\ pc = "done" /\ TableOk) =>
        /\ err = "none"
        /\ ret # None
        /\ Len(ret[1]) = DeclaredTracks
        /\ \A k \in 1..DeclaredTracks :
              /\ ret[1][k].id = LE32(TableAt(k - 1))
              /\ ret[1][k].offset = LE32(TableAt(k - 1) + 4)
              /\ ret[1][k].size = LE32(TableAt(k - 1) + 8)
              /\ ret[1][k].rate = None
              /\ ret[1][k].payload = None

C1_Witness ==
    /\ op = "read_music_headers" /\ pc = "done" /\ TableOk
    /\ IsV2 /\ DeclaredTracks = MaxTracks /\ ret # None

\* C2: the header-block length at byte 12 fixes table start and stride
\* together: with k records read the cursor is at 56 + 21k for length 40 and
\* at 20 + 25k for every other length.
C2_LayoutFromHeaderLen ==
    pc = "song_info" =>
        /\ Len(songs) <= total_tracks
        /\ IF BE32(12) = 40 THEN pos = 56 + 21 * Len(songs)
                            ELSE pos = 20 + 25 * Len(songs)

C2_Witness ==
    pc = "song_info" /\ BE32(12) # 40 /\ Len(songs) = MaxTracks /\ pos = 20 + 25 * MaxTracks

\* C3: a track with DIGI at o, SDAT at o+32, declared size N+8 at o+36 and N
\* bytes present at o+40 gets rate = the little-endian value at o+22 and
\* payload = exactly those N bytes.
C3_RoundTrip ==
    \A k \in Tracks :
        LET o == songs[k].offset
        IN  (Passed(k) /\ Field(o, 4) = DIGI /\ Field(o + 32, 4) = SDAT
             /\ Has(o + 36, 4) /\ BE32(o + 36) >= 8
             /\ Has(o + 40, BE32(o + 36) - 8)) =>
                /\ songs[k].rate = Some(LE32(o + 22))
                /\ songs[k].payload = Some(Field(o + 40, BE32(o + 36) - 8))

C3_Witness ==
    \E k \in Tracks :
        LET o == songs[k].offset
        IN  /\ Passed(k) /\ k < Len(songs)
            /\ Field(o, 4) = DIGI /\ Field(o + 32, 4) = SDAT
            /\ Has(o + 36, 4) /\ BE32(o + 36) = 8 + MaxPayload
            /\ songs[k].payload = Some(Field(o + 40, MaxPayload))

\* C4: a track with SBNG of declared length L >= 8 at o+32 and a sound SDAT
\* chunk at o+32+L is extracted as if the SBNG block were absent (rate from
\* o+22, payload from the SDAT chunk), with sbng_code_offset = 40, and the
\* call does not fail on it.
C4_SbngSkipped ==
    \A k \in Tracks :
        LET o == songs[k].offset
        IN  ((Passed(k) \/ Raised(k)) /\ Field(o, 4) = DIGI
             /\ Field(o + 32, 4) = SBNG /\ Has(o + 36, 4) /\ BE32(o + 36) >= 8
             /\ SoundSdat(o)) =>
                /\ ~Raised(k)
                /\ songs[k].rate = Some(LE32(o + 22))
                /\ songs[k].payload = Some(PayloadOf(o))
                /\ songs[k].sbng_code_offset = 40

\* C5: a track whose tag at its offset is not DIGI, or whose tag at the
\* payload position is not SDAT, is skipped: the pass ends without an
\* exception and leaves rate and payload both absent.  (Stated for the
\* tracks whose sample rate and tags lie in the file.)
C5_BadTagSkipped ==
    \A k \in Tracks :
        LET o == songs[k].offset
        IN  ((Passed(k) \/ Raised(k))
             /\ (\/ (Has(o, 4) /\ Field(o, 4) # DIGI)
                 \/ (Has(o + 22, 4) /\ (Field(o + 32, 4) = SBNG => Has(o + 36, 4))
                     /\ Has(SdatAt(o), 4)
                     /\ Field(SdatAt(o), 4) # SDAT))) =>
                /\ ~Raised(k)
                /\ songs[k].rate = None
                /\ songs[k].payload = None

\* C6: when the header and the N-record table parse, get_music_data never
\* raises on what it finds at a track's offset: it returns N entries.
C6_NeverRaises ==
    (op = "get_music_data" /\ pc = "done" /\ TableOk) =>
        /\ err = "none"
        /\ ret # None
        /\ Len(ret[1]) = DeclaredTracks

\* C7: a field cut short by the end of the file is reported as an error: no
\* entry is built from a partial record, a call that met a cut sample rate or
\* size field ends with an exception, and no track is marked extracted
\* with a payload shorter than its declared length.
C7_TruncationReported ==
    /\ (pc \in {"song_info", "song_data", "done"} /\ HeaderOk /\ Has(16, 4)) =>
          \A k \in Tracks : Has(TableAt(k - 1), 12)
    /\ \A k \in Tracks :
          LET o == songs[k].offset
          IN  /\ (Passed(k) /\ Field(o, 4) = DIGI /\ ~Has(o + 22, 4)) => FALSE
              /\ (Passed(k) /\ songs[k].payload # None /\ BE32(SdatAt(o) + 4) >= 8) =>
                    Len(songs[k].payload[1]) = BE32(SdatAt(o) + 4) - 8

\* C8: with bytes 0..3 not SONG or bytes 8..11 not SGHD both methods fail,
\* with the same error, before the track count, a record or a track offset
\* is read, and return no list.
C8_BadMagicAborts ==
    ~HeaderOk =>
        /\ pos <= 12
        /\ total_tracks = 0
        /\ songs = << >>
        /\ idx = 0
        /\ ret = None
        /\ pc \in {"idle", "song", "sghd", "done"}
        /\ pc = "done" =>
              err = (IF Field(0, 4) # SONG THEN "RuntimeError" ELSE "AssertionError")

C8_Witness ==
    /\ ~HeaderOk /\ Field(0, 4) = SONG /\ Len(file) > 20
    /\ op = "get_music_data" /\ pc = "done" /\ err = "AssertionError" /\ calls = MaxCalls

Descriptors(list) ==
    [k \in 1..Len(list) |-> [id |-> list[k].id, offset |-> list[k].offset,
                             size |-> list[k].size]]

\* C9: every call on an unchanged file ends as the first call of the same
\* method did (same exception, or same list with the same rate and payload
\* per track), whatever cursor the call before left; get_music_data lists
\* the descriptors read_music_headers lists; the class attribute he_version
\* keeps its value.
C9_Idempotent ==
    /\ cls_he_version = 80
    /\ pc = "done" => first[op] = Some([err |-> err, ret |-> ret])
    /\ (first["read_music_headers"] # None /\ first["get_music_data"] # None
        /\ first["get_music_data"][1].err = "none") =>
            /\ first["read_music_headers"][1].err = "none"
            /\ Descriptors(first["get_music_data"][1].ret[1])
                 = Descriptors(first["read_music_headers"][1].ret[1])

C9_Witness ==
    /\ calls = MaxCalls /\ pc = "done" /\ op = "get_music_data"
    /\ first["read_music_headers"] = None
    /\ err = "none" /\ he_version = 70 /\ pos > 20
    /\ \E k \in Tracks : songs[k].payload # None /\ songs[k].payload[1] # << >>

\* C10: a track marked extracted has a payload of the declared SDAT size
\* minus 8 bytes, for every declared size; a declared size below 8 does not
\* make the extractor read the rest of the file.  (Stated for the tracks
\* whose declared payload lies in the file.)
C10_PayloadLenIsDeclaredMinus8 ==
    \A k \in Tracks :
        LET o == songs[k].offset
            at == SdatAt(o)
        IN  (Passed(k) /\ songs[k].payload # None
             /\ (BE32(at + 4) < 8 \/ Has(at + 8, BE32(at + 4) - 8))) =>
                Len(songs[k].payload[1]) = BE32(at + 4) - 8

====
